---- MODULE Spec2Model ----
(***************************************************************************)
(* Model of station_proximity_table.py: main loads a station table,       *)
(* builds the all-pairs haversine distance frame, the per-station          *)
(* elevation matches, joins both onto the station rows and saves the       *)
(* result.                                                                 *)
(*                                                                         *)
(* Numbers.  Latitudes and longitudes are whole degrees.  A distance d (a   *)
(* float, in km) is represented by the integer ceil(1000 * d), so that for *)
(* a threshold of m whole metres d <= m/1000 holds exactly when the        *)
(* representation is <= m.  NaN (an unset cell of the distance frame) is   *)
(* the value NaN below; a comparison with it is false, as in pandas.       *)
(* An elevation is a decimal with one fractional digit, held in tenths     *)
(* (244 is 24.4); read_csv parses it to the nearest double.  The doubles   *)
(* elevation - tolerance and elevation + tolerance are placed on a scale   *)
(* of ten ticks per tenth: the double nearest to a one-digit decimal v     *)
(* sits at tick 10 * v, a rounded sum or difference just above or below    *)
(* it one tick away.                                                       *)
(*                                                                         *)
(* Strings.  A string is a sequence of one-character strings, so that      *)
(* '; '.join really concatenates and can be read back only by splitting.   *)
(*                                                                         *)
(* Inputs.  The station sets drawn by the load step have unique names and  *)
(* numeric cells (pd.to_numeric then leaves them as they are).             *)
(***************************************************************************)
EXTENDS Integers, Sequences, FiniteSets, TLC

VARIABLES pc, stations, loaded, distances, elevation_matches, table,
          elevation_tolerance, max_distance, calls, error_reported, saved,
          input_file

vars == <<pc, stations, loaded, distances, elevation_matches, table,
          elevation_tolerance, max_distance, calls, error_reported, saved,
          input_file>>

\* ---------------------------------------------------------------- bounds
MaxStations == 3

\* ------------------------------------------------------- modelled inputs
NameUniverse == {<<"A">>, <<"B">>, <<"C">>, <<"A", "B">>}

Sites ==
    { [latitude |->   0, longitude |->    0, elevation |->    0],
      [latitude |->   0, longitude |->    0, elevation |-> 1000],
      [latitude |->   0, longitude |->    1, elevation |->  244],
      [latitude |-> -82, longitude |-> -180, elevation |-> 1244],
      [latitude |->  82, longitude |->    0, elevation |->  -10] }

Tolerances == {0, 100}
MaxDistances == {0, 100000, 111195}

NaN == -1
DomainError == -2

\* ------------------------------------------------------------- haversine
\* ceil(1000 * haversine(lat1, lon1, lat2, lon2)) as the source's float
\* arithmetic evaluates it on the modelled coordinates; for the antipodal
\* pair (-82,-180) / (82,0) the float a exceeds 1 and sqrt(1-a) raises
\* "math domain error".
haversine(lat1, lon1, lat2, lon2) ==
    LET p == <<lat1, lon1>>
        q == <<lat2, lon2>>
    IN  CASE p = <<0, 0>>      /\ q = <<0, 0>>      -> 0
          [] p = <<0, 0>>      /\ q = <<0, 1>>      -> 111195
          [] p = <<0, 0>>      /\ q = <<-82, -180>> -> 10897103
          [] p = <<0, 0>>      /\ q = <<82, 0>>     -> 9117984
          [] p = <<0, 1>>      /\ q = <<0, 0>>      -> 111195
          [] p = <<0, 1>>      /\ q = <<0, 1>>      -> 0
          [] p = <<0, 1>>      /\ q = <<-82, -180>> -> 10896967
          [] p = <<0, 1>>      /\ q = <<82, 0>>     -> 9118121
          [] p = <<-82, -180>> /\ q = <<0, 0>>      -> 10897103
          [] p = <<-82, -180>> /\ q = <<0, 1>>      -> 10896967
          [] p = <<-82, -180>> /\ q = <<-82, -180>> -> 0
          [] p = <<-82, -180>> /\ q = <<82, 0>>     -> DomainError
          [] p = <<82, 0>>     /\ q = <<0, 0>>      -> 9117984
          [] p = <<82, 0>>     /\ q = <<0, 1>>      -> 9118121
          [] p = <<82, 0>>     /\ q = <<-82, -180>> -> DomainError
          [] p = <<82, 0>>     /\ q = <<82, 0>>     -> 0

\* --------------------------------------------------------------- helpers
NameSet(st) == { st[i].station_name : i \in 1..Len(st) }

\* position of the row called name (names are unique)
RowOf(st, name) == CHOOSE i \in 1..Len(st) : st[i].station_name = name

\* sep.join(parts) on character sequences
RECURSIVE Join(_, _)
Join(parts, sep) ==
    IF Len(parts) = 0 THEN <<>>
    ELSE IF Len(parts) = 1 THEN parts[1]
    ELSE parts[1] \o sep \o Join(Tail(parts), sep)

Delimiter == <<";", " ">>

\* ------------------------------------------------------ load_station_data
RequiredColumns == {"station_name", "latitude", "longitude", "elevation"}

\* the station tables a readable, well-formed file can hold: at most
\* MaxStations rows, unique names, numeric cells
StationSets ==
    UNION { { [i \in 1..n |-> [station_name |-> f[i][1],
                               latitude     |-> f[i][2].latitude,
                               longitude    |-> f[i][2].longitude,
                               elevation    |-> f[i][2].elevation]] :
                f \in { g \in [1..n -> NameUniverse \X Sites] :
                          \A i, j \in 1..n : i # j => g[i][1] # g[j][1] } }
            : n \in 0..MaxStations }

\* what pd.read_csv finds: an unreadable file, or a frame with some columns
Files ==
    { [readable |-> FALSE, columns |-> {}, rows |-> <<>>] }
    \cup { [readable |-> TRUE, columns |-> cols, rows |-> <<>>] :
              cols \in (SUBSET RequiredColumns) \ {RequiredColumns} }
    \cup { [readable |-> TRUE, columns |-> RequiredColumns, rows |-> st] :
              st \in StationSets }

\* the value returned: None when read_csv raised or a column is missing
\* (the except branch), else the frame
None == [none |-> TRUE, frame |-> <<>>]

\* variant: the required-columns check is missing
load_station_data_unchecked(file) ==
    IF ~file.readable THEN None
    ELSE [none |-> FALSE, frame |-> file.rows]

load_station_data(file) ==
    IF ~file.readable THEN None
    ELSE IF ~(\A col \in RequiredColumns : col \in file.columns) THEN None
    ELSE [none |-> FALSE, frame |-> file.rows]

\* ------------------------------------------- compute_pairwise_distances
NamesOf(st) == [i \in 1..Len(st) |-> st[i].station_name]

\* variant: without "if i != j" the diagonal is computed too
compute_pairwise_distances_diagonal(st) ==
    [ index |-> NamesOf(st),
      cell  |-> [ rc \in NameSet(st) \X NameSet(st) |->
                    LET i == RowOf(st, rc[1])
                        j == RowOf(st, rc[2])
                    IN  haversine(st[i].latitude, st[i].longitude,
                                  st[j].latitude, st[j].longitude) ] ]

\* variant: each unordered pair is stored once, under i < j only
compute_pairwise_distances_upper(st) ==
    [ index |-> NamesOf(st),
      cell  |-> [ rc \in NameSet(st) \X NameSet(st) |->
                    LET i == RowOf(st, rc[1])
                        j == RowOf(st, rc[2])
                    IN  IF i < j
                        THEN haversine(st[i].latitude, st[i].longitude,
                                       st[j].latitude, st[j].longitude)
                        ELSE NaN ] ]

\* the frame indexed by station_name both ways; cell (r, c) is set only
\* for rows i # j of stations, every other cell stays NaN
compute_pairwise_distances(st) ==
    [ index |-> NamesOf(st),
      cell  |-> [ rc \in NameSet(st) \X NameSet(st) |->
                    LET i == RowOf(st, rc[1])
                        j == RowOf(st, rc[2])
                    IN  IF i # j
                        THEN haversine(st[i].latitude, st[i].longitude,
                                       st[j].latitude, st[j].longitude)
                        ELSE NaN ] ]

\* haversine raises for some pair the loops reach
HaversineRaises(st) ==
    \E i, j \in 1..Len(st) :
        /\ i # j
        /\ haversine(st[i].latitude, st[i].longitude,
                     st[j].latitude, st[j].longitude) = DomainError

\* ----------------------------------------------- find_elevation_matches
\* the tick of the double an elevation cell holds
Tick(elevation) == 10 * elevation

\* the ticks of the doubles elevation - tolerance and elevation + tolerance
\* (tolerance in whole units).  On the modelled elevations every result is
\* the double nearest to the decimal result, except 124.4 - 100, which is
\* 24.400000000000006, one above the double that 24.4 parses to.
FloatSub(elevation, tolerance) ==
    10 * (elevation - 10 * tolerance)
      + (IF elevation = 1244 /\ tolerance = 100 THEN 1 ELSE 0)

FloatAdd(elevation, tolerance) == 10 * (elevation + 10 * tolerance)

\* variant: the band is open at its upper end
find_elevation_matches_open(st, tolerance) ==
    [ station_name \in NameSet(st) |->
        LET elevation == st[RowOf(st, station_name)].elevation
            matches == SelectSeq(st, LAMBDA row :
                          /\ Tick(row.elevation) >= FloatSub(elevation, tolerance)
                          /\ Tick(row.elevation) < FloatAdd(elevation, tolerance)
                          /\ row.station_name # station_name)
        IN  [k \in 1..Len(matches) |-> matches[k].station_name] ]

\* variant: the station itself is not excluded
find_elevation_matches_self(st, tolerance) ==
    [ station_name \in NameSet(st) |->
        LET elevation == st[RowOf(st, station_name)].elevation
            matches == SelectSeq(st, LAMBDA row :
                          /\ Tick(row.elevation) >= FloatSub(elevation, tolerance)
                          /\ Tick(row.elevation) <= FloatAdd(elevation, tolerance))
        IN  [k \in 1..Len(matches) |-> matches[k].station_name] ]

find_elevation_matches(st, tolerance) ==
    [ station_name \in NameSet(st) |->
        LET elevation == st[RowOf(st, station_name)].elevation
            matches == SelectSeq(st, LAMBDA row :
                          /\ Tick(row.elevation) >= FloatSub(elevation, tolerance)
                          /\ Tick(row.elevation) <= FloatAdd(elevation, tolerance)
                          /\ row.station_name # station_name)
        IN  [k \in 1..Len(matches) |-> matches[k].station_name] ]

\* ------------------------------------------------- create_station_table
\* variant: strict comparison
LessEqStrict(x, y) == x # NaN /\ x < y

\* variant: comparison the wrong way round
LessEqFlipped(x, y) == x # NaN /\ x >= y

\* a float comparison: false against NaN
LessEq(x, y) == x # NaN /\ x <= y

\* variant: the names come out in reverse index order
Reverse(seq) == [k \in 1..Len(seq) |-> seq[Len(seq) + 1 - k]]

NearbyReversed(dist, station, maxd) ==
    LET column == SelectSeq(dist.index,
                      LAMBDA r : LessEq(dist.cell[<<r, station>>], maxd))
    IN  Reverse(SelectSeq(column, LAMBDA s : s # station))

\* distances[station][distances[station] <= max_distance].index.tolist(),
\* then without the station itself
Nearby(dist, station, maxd) ==
    LET column == SelectSeq(dist.index,
                      LAMBDA r : LessEq(dist.cell[<<r, station>>], maxd))
    IN  SelectSeq(column, LAMBDA s : s # station)

\* variant: the table is built on the stations frame itself, not on a copy
create_station_table_nocopy(st, dist, matches, maxd) ==
    LET t == [ i \in 1..Len(st) |->
                [ station_name |-> st[i].station_name,
                  latitude     |-> st[i].latitude,
                  longitude    |-> st[i].longitude,
                  elevation    |-> st[i].elevation,
                  Range        |-> Join(Nearby(dist, st[i].station_name, maxd), Delimiter),
                  Elevation    |-> Join(matches[st[i].station_name], Delimiter) ] ]
    IN  [ table |-> t, stations |-> t ]

\* the table built on a copy of the four station columns, and the stations
\* frame as the call leaves it
create_station_table(st, dist, matches, maxd) ==
    [ table |->
        [ i \in 1..Len(st) |->
            [ station_name |-> st[i].station_name,
              latitude     |-> st[i].latitude,
              longitude    |-> st[i].longitude,
              elevation    |-> st[i].elevation,
              Range        |-> Join(Nearby(dist, st[i].station_name, maxd), Delimiter),
              Elevation    |-> Join(matches[st[i].station_name], Delimiter) ] ],
      stations |-> st ]

\* ------------------------------------------------------------------ main
Init ==
    /\ pc = "start"
    /\ stations = <<>>
    /\ loaded = <<>>
    /\ distances = [index |-> <<>>, cell |-> <<>>]
    /\ elevation_matches = <<>>
    /\ table = <<>>
    /\ elevation_tolerance = 100
    /\ max_distance = 100000
    /\ calls = <<>>
    /\ error_reported = FALSE
    /\ saved = FALSE
    /\ input_file = [readable |-> FALSE, columns |-> {}, rows |-> <<>>]

\* stations = load_station_data(file_path), a frame
LoadStationData ==
    /\ pc = "start"
    /\ \E file \in Files :
          /\ load_station_data(file) # None
          /\ stations' = load_station_data(file).frame
          /\ loaded' = load_station_data(file).frame
          /\ input_file' = file
    /\ pc' = "loaded"
    /\ calls' = Append(calls, "load_station_data")
    /\ UNCHANGED <<distances, elevation_matches, table, elevation_tolerance,
                   max_distance, error_reported, saved>>

\* load_station_data printed the error and returned None: main returns
LoadStationDataFails ==
    /\ pc = "start"
    /\ \E file \in Files :
          /\ load_station_data(file) = None
          /\ input_file' = file
    /\ pc' = "aborted"
    /\ error_reported' = TRUE
    /\ calls' = Append(calls, "load_station_data")
    /\ UNCHANGED <<stations, loaded, distances, elevation_matches, table,
                   elevation_tolerance, max_distance, saved>>

ComputePairwiseDistances ==
    /\ pc = "loaded"
    /\ ~HaversineRaises(stations)
    /\ distances' = compute_pairwise_distances(stations)
    /\ pc' = "distances"
    /\ calls' = Append(calls, "compute_pairwise_distances")
    /\ UNCHANGED <<input_file, stations, loaded, elevation_matches, table,
                   elevation_tolerance, max_distance, error_reported, saved>>

\* a ValueError from haversine leaves main: the run ends without a table
ComputePairwiseDistancesRaises ==
    /\ pc = "loaded"
    /\ HaversineRaises(stations)
    /\ pc' = "raised"
    /\ calls' = Append(calls, "compute_pairwise_distances")
    /\ UNCHANGED <<input_file, stations, loaded, distances, elevation_matches, table,
                   elevation_tolerance, max_distance, error_reported, saved>>

FindElevationMatches ==
    /\ pc = "distances"
    /\ \E tolerance \in Tolerances :
          /\ elevation_tolerance' = tolerance
          /\ elevation_matches' = find_elevation_matches(stations, tolerance)
    /\ pc' = "elevation"
    /\ calls' = Append(calls, "find_elevation_matches")
    /\ UNCHANGED <<input_file, stations, loaded, distances, table, max_distance,
                   error_reported, saved>>

CreateStationTable ==
    /\ pc = "elevation"
    /\ \E maxd \in MaxDistances :
          LET result == create_station_table(stations, distances,
                                             elevation_matches, maxd)
          IN  /\ max_distance' = maxd
              /\ table' = result.table
              /\ stations' = result.stations
    /\ pc' = "table"
    /\ calls' = Append(calls, "create_station_table")
    /\ UNCHANGED <<input_file, loaded, distances, elevation_matches, elevation_tolerance,
                   error_reported, saved>>

\* table.to_csv(output_file, index=False)
SaveTable ==
    /\ pc = "table"
    /\ saved' = TRUE
    /\ pc' = "saved"
    /\ calls' = Append(calls, "to_csv")
    /\ UNCHANGED <<input_file, stations, loaded, distances, elevation_matches, table,
                   elevation_tolerance, max_distance, error_reported>>

Next ==
    \/ LoadStationData
    \/ LoadStationDataFails
    \/ ComputePairwiseDistances
    \/ ComputePairwiseDistancesRaises
    \/ FindElevationMatches
    \/ CreateStationTable
    \/ SaveTable

Spec == Init /\ [][Next]_vars

\* ======================================================= properties
\* the names a joined field holds: the pieces between "; " delimiters
Min(S) == CHOOSE k \in S : \A m \in S : k <= m

RECURSIVE Pieces(_)
Pieces(str) ==
    LET cuts == { k \in 1..(Len(str) - 1) : str[k] = ";" /\ str[k + 1] = " " }
    IN  IF cuts = {} THEN <<str>>
        ELSE <<SubSeq(str, 1, Min(cuts) - 1)>>
               \o Pieces(SubSeq(str, Min(cuts) + 2, Len(str)))

Split(str) == IF str = <<>> THEN <<>> ELSE Pieces(str)

Elems(seq) == { seq[k] : k \in 1..Len(seq) }

TableBuilt == pc \in {"table", "saved"}
MatchesBuilt == pc \in {"elevation", "table", "saved"}
DistancesBuilt == pc \in {"distances", "elevation", "table", "saved"}

Rows == 1..Len(loaded)

\* the distance function on the coordinates of input rows i and j
Distance(i, j) ==
    haversine(loaded[i].latitude, loaded[i].longitude,
              loaded[j].latitude, loaded[j].longitude)

InRange(i, j) == i # j /\ Distance(i, j) <= max_distance

InBand(i, j) ==
    /\ i # j
    /\ Tick(loaded[j].elevation) >= FloatSub(loaded[i].elevation, elevation_tolerance)
    /\ Tick(loaded[j].elevation) <= FloatAdd(loaded[i].elevation, elevation_tolerance)

RangeNames(i) == Elems(Split(table[i].Range))
ElevationNames(i) == Elems(Split(table[i].Elevation))

\* C1: once the table is built, the names in each station's Range field are
\* exactly the other stations at distance <= max_distance, a station at
\* distance exactly max_distance included.
C1_RangeExact ==
    TableBuilt =>
        \A i \in Rows :
            RangeNames(i) = { loaded[j].station_name : j \in { k \in Rows : InRange(i, k) } }

C1_Witness ==
    /\ TableBuilt
    /\ \E i, j, k \in Rows :
          /\ i # j /\ i # k
          /\ Distance(i, j) = max_distance
          /\ loaded[j].station_name \in RangeNames(i)
          /\ Distance(i, k) > max_distance
          /\ loaded[k].station_name \notin RangeNames(i)

C3_NamesClosed ==
    TableBuilt =>
        \A i \in 1..Len(table) :
            /\ RangeNames(i) \subseteq NameSet(loaded) \ {table[i].station_name}
            /\ ElevationNames(i) \subseteq NameSet(loaded) \ {table[i].station_name}

C3_Witness ==
    /\ TableBuilt
    /\ \E i \in 1..Len(table) : RangeNames(i) # {} /\ ElevationNames(i) # {}

\* C4: after compute_pairwise_distances the frame holds, for each of the
\* n*(n-1) ordered pairs of distinct stations, the distance function of
\* their coordinates, the same value both ways round, and no value for a
\* station paired with itself.
C4_DistanceFrame ==
    DistancesBuilt =>
        /\ \A i, j \in Rows :
              LET a == loaded[i].station_name
                  b == loaded[j].station_name
              IN  IF i # j
                  THEN /\ distances.cell[<<a, b>>] # NaN
                       /\ distances.cell[<<a, b>>] = Distance(i, j)
                       /\ distances.cell[<<a, b>>] = distances.cell[<<b, a>>]
                  ELSE distances.cell[<<a, a>>] = NaN
        /\ Cardinality({ rc \in DOMAIN distances.cell : distances.cell[rc] # NaN })
              = Len(loaded) * (Len(loaded) - 1)

C4_Witness ==
    /\ pc = "distances"
    /\ Len(loaded) = 3
    /\ \E i, j \in Rows :
          distances.cell[<<loaded[i].station_name, loaded[j].station_name>>] > 0

\* C5: the table has one record per input station, in input order, with
\* the station's own name, latitude, longitude and elevation, and the
\* station set is the same after the three core steps as when loaded.
C5_OrderAndFrame ==
    /\ TableBuilt =>
          /\ Len(table) = Len(loaded)
          /\ \A i \in Rows :
                /\ table[i].station_name = loaded[i].station_name
                /\ table[i].latitude = loaded[i].latitude
                /\ table[i].longitude = loaded[i].longitude
                /\ table[i].elevation = loaded[i].elevation
    /\ DistancesBuilt => stations = loaded

C5_Witness ==
    /\ TableBuilt
    /\ Len(table) = 3
    /\ table[1].station_name = <<"C">>
    /\ table[2].station_name = <<"A">>
    /\ \E i \in Rows : table[i].Range # <<>>

\* C6: on a station set of size 0 or 1 no core step fails and the table
\* has that many records with empty Range and Elevation; in any table a
\* station with no qualifying neighbour has the empty string in that field.
C6_Degenerate ==
    /\ (pc = "raised") => Len(loaded) >= 2
    /\ (Len(loaded) <= 1) =>
          /\ (pc = "loaded") => ENABLED ComputePairwiseDistances
          /\ (pc = "distances") => ENABLED FindElevationMatches
          /\ (pc = "elevation") => ENABLED CreateStationTable
    /\ (TableBuilt /\ Len(loaded) <= 1) =>
          /\ Len(table) = Len(loaded)
          /\ \A i \in 1..Len(table) :
                table[i].Range = <<>> /\ table[i].Elevation = <<>>
    /\ TableBuilt =>
          \A i \in Rows :
              /\ (~\E j \in Rows : InRange(i, j)) => table[i].Range = <<>>
              /\ (~\E j \in Rows : InBand(i, j)) => table[i].Elevation = <<>>

C6_Witness ==
    /\ TableBuilt
    /\ Len(loaded) = 1
    /\ Len(table) = 1
    /\ table[1].Range = <<>>

\* C7: when the input lacks a required column the error is reported and
\* main returns after the load step: no core step runs and nothing is
\* saved; and whenever the table is saved, the load succeeded and the three
\* core steps ran before the write, create_station_table last.
C7_AbortBeforeCore ==
    /\ (pc # "start" /\ input_file.readable /\ input_file.columns # RequiredColumns) =>
          /\ error_reported
          /\ pc = "aborted"
          /\ calls = <<"load_station_data">>
          /\ ~saved
    /\ error_reported => (calls = <<"load_station_data">> /\ ~saved)
    /\ saved =>
          /\ ~error_reported
          /\ input_file.readable /\ input_file.columns = RequiredColumns
          /\ calls = <<"load_station_data", "compute_pairwise_distances",
                       "find_elevation_matches", "create_station_table", "to_csv">>

C7_Witness ==
    /\ pc = "aborted"
    /\ input_file.readable
    /\ input_file.columns = RequiredColumns \ {"elevation"}
    /\ error_reported

\* C9: the names in each Range string and in each Elevation string stand
\* in input order, none twice, joined by "; ".
InInputOrder(names) ==
    /\ Elems(names) \subseteq NameSet(loaded)
    /\ \A k \in 1..(Len(names) - 1) :
          RowOf(loaded, names[k]) < RowOf(loaded, names[k + 1])

C9_InputOrder ==
    TableBuilt =>
        \A i \in Rows :
            /\ InInputOrder(Split(table[i].Range))
            /\ InInputOrder(Split(table[i].Elevation))
            /\ table[i].Range = Join(Split(table[i].Range), Delimiter)
            /\ table[i].Elevation = Join(Split(table[i].Elevation), Delimiter)

\* a Range list and an Elevation list of two names that stand in input
\* order although neither by name nor by distance
C9_Witness ==
    /\ TableBuilt
    /\ Len(loaded) = 3
    /\ loaded[1].station_name = <<"B">>
    /\ loaded[2].station_name = <<"C">>
    /\ loaded[3].station_name = <<"A">>
    /\ Distance(2, 1) > Distance(2, 3)
    /\ table[2].Range = <<"B", ";", " ", "A">>
    /\ table[2].Elevation = <<"B", ";", " ", "A">>

\* C10 as stated: both derived relations are symmetric.
RangeSymmetric ==
    \A i, j \in Rows :
        (loaded[j].station_name \in RangeNames(i)) <=> (loaded[i].station_name \in RangeNames(j))

ElevationSymmetric ==
    \A i, j \in Rows :
        (loaded[j].station_name \in ElevationNames(i))
           <=> (loaded[i].station_name \in ElevationNames(j))

BandsExact ==
    \A i \in Rows :
        /\ FloatSub(loaded[i].elevation, elevation_tolerance)
              = 10 * (loaded[i].elevation - 10 * elevation_tolerance)
        /\ FloatAdd(loaded[i].elevation, elevation_tolerance)
              = 10 * (loaded[i].elevation + 10 * elevation_tolerance)

====
